---- MODULE Spec2Model ----
(***************************************************************************)
(* A model of the multi-source query pipeline of do-i-have-this-movie:     *)
(* the SourceRegistry (source-registry.js), the fan-out aggregator         *)
(* checkAllSources with its onMessage listener (background.js), the source *)
(* adapters' checkMovie as the aggregator sees it, and the content         *)
(* script's processItems loop driven by MutationObserver callbacks.        *)
(*                                                                         *)
(* JavaScript is single threaded: an action is one run of a handler or of  *)
(* a continuation from one suspension point (await) to the next.           *)
(***************************************************************************)
EXTENDS Integers, Sequences, FiniteSets, TLC

\* ------------------------------------------------------------------ bounds

\* enableSource calls that may be suspended at the same time
MaxEnables == 1
\* CHECK_MOVIE requests the background handles over one run
MaxCalls == 1
\* candidate elements of the page
NumElems == 2
\* MutationObserver callbacks (processItems scans) over one run
MaxScans == 2

\* --------------------------------------------------------------- constants

\* source ids under which adapters are registered (background.js registers
\* 'jellyfin', 'emby', 'plex', 'local'; two of them bound the model)
Ids == {"emby", "plex"}

\* adapter classes: EmbySourceAdapter, PlexSourceAdapter, and "partial", a
\* subclass of BaseSourceAdapter that overrides everything but checkMovie and
\* so inherits the base checkMovie, which throws
Kinds == {"emby", "plex", "partial"}

\* the adapter classes a caller registers under an id
KindsFor(id) == {id, "partial"}

NoKind == "null"

\* credentials objects as stored under sources[id]; key is the secret field
\* (apiKey for Emby, token for Plex)
GoodCreds == [serverUrl |-> "http://h/", key |-> "k"]
BadCreds == [serverUrl |-> "not a url", key |-> ""]
\* valid credentials of another server
OtherCreds == [serverUrl |-> "http://g", key |-> "k2"]
CredSamples == {GoodCreds, OtherCreds, BadCreds}

\* this.config = null of a freshly constructed adapter
NullConfig == [serverUrl |-> "null", key |-> "null"]

\* getAdapter(id) of an id that is not registered
NoAdapter == [kind |-> NoKind, config |-> NullConfig]

\* no direct method call has been made
NoResult == [op |-> "none"]

\* new EmbySourceAdapter() etc.: an instance with config = null
NewAdapter(kind) == [kind |-> kind, config |-> NullConfig]

VARIABLES
  adapters,       \* SourceRegistry.adapters: id -> adapter instance or NoAdapter
  registered,     \* the keys of SourceRegistry.adapters (a JS Map), in its order
  activeSources,  \* SourceRegistry.activeSources: a JS Set, in insertion order
  store,          \* chrome.storage.local 'sources': id -> credentials
  enables,        \* enableSource calls suspended at an await
  calls,          \* checkAllSources invocations, one per CHECK_MOVIE request
  present,        \* the candidate elements that are in the document
  title,          \* element -> the title its markup holds, "" for none
  checked,        \* element -> its dataset.jellyfinChecked is set
  skipped,        \* elements marked while extractTitle gave no title
  sent,           \* element -> CHECK_MOVIE messages sent for it
  badges,         \* element -> badges appended for it
  notify,         \* a childList mutation is waiting for the observer
  scans,          \* the processItems calls started, in order
  adapter,        \* an adapter object whose methods are called directly
  result,         \* what the last direct method call gave back
  inflight,       \* a checkMovie call on the object suspended in getUserId
  siteAdapters,   \* AdapterRegistry.adapters: the page adapters, in order
  storage,        \* chrome.storage.local but for the credentials: the legacy
                  \* keys, migrationComplete, the keys of sources in their
                  \* order and the ids stored with enabled = true
  boot            \* the background's initialize() call

regVars == <<adapters, registered, activeSources, store, enables>>
pageVars == <<present, title, checked, skipped, sent, badges, notify, scans>>
unitVars == <<adapter, result, inflight, siteAdapters>>
bootVars == <<storage, boot>>
vars == <<adapters, registered, activeSources, store, enables, calls,
          present, title, checked, skipped, sent, badges, notify, scans,
          adapter, result, inflight, siteAdapters, storage, boot>>

\* ----------------------------------------------------------------- helpers

Range(s) == {s[i] : i \in 1..Len(s)}

RECURSIVE SeqRemove(_, _)
SeqRemove(s, x) ==
  IF s = <<>> THEN <<>>
  ELSE IF Head(s) = x THEN SeqRemove(Tail(s), x)
       ELSE <<Head(s)>> \o SeqRemove(Tail(s), x)

\* Set.prototype.add: appends unless present
SetAdd(s, x) == IF x \in Range(s) THEN s ELSE Append(s, x)

\* Set.prototype.delete
SetDelete(s, x) == SeqRemove(s, x)

\* ------------------------------------------------- source adapters (config)

\* new URL(s) succeeds
IsUrl(s) == s \in {"http://h/", "http://h", "http://g"}

\* validation stops at its first error
EmbyValidateFirstError(config) ==
  IF config.serverUrl = "" THEN <<"Server URL is required">>
  ELSE IF ~IsUrl(config.serverUrl) THEN <<"Invalid Server URL">>
  ELSE IF config.key = "" THEN <<"API Key is required">>
  ELSE <<>>

\* EmbySourceAdapter.validateCredentials: the errors list
EmbyValidateCredentials(config) ==
  (IF config.serverUrl = "" THEN <<"Server URL is required">>
   ELSE IF ~IsUrl(config.serverUrl) THEN <<"Invalid Server URL">>
   ELSE <<>>)
  \o (IF config.key = "" THEN <<"API Key is required">> ELSE <<>>)

\* PlexSourceAdapter.validateCredentials: the errors list
PlexValidateCredentials(config) ==
  (IF config.serverUrl = "" THEN <<"Server URL is required">>
   ELSE IF ~IsUrl(config.serverUrl) THEN <<"Invalid Server URL">>
   ELSE <<>>)
  \o (IF config.key = "" THEN <<"Plex Token is required">> ELSE <<>>)

\* the Local adapter's credentials: paths is the textarea's text as its
\* lines (<<>> for a missing or empty text), recursive the checkbox value
LocalCredSamples ==
  { [paths |-> <<>>, recursive |-> "false"],
    [paths |-> <<" ", "">>, recursive |-> "true"],
    [paths |-> <<"/a">>, recursive |-> "true"],
    [paths |-> <<" /b ", "", "/a">>, recursive |-> "on"] }

\* String.prototype.trim on a line of the samples
Trim(line) ==
  IF line \in {"", " "} THEN "" ELSE IF line = " /b " THEN "/b" ELSE line

\* paths.split('\n').map(p => p.trim()).filter(p => p)
RECURSIVE SplitPaths(_)
SplitPaths(paths) ==
  IF paths = <<>> THEN <<>>
  ELSE (IF Trim(Head(paths)) = "" THEN <<>> ELSE <<Trim(Head(paths))>>)
       \o SplitPaths(Tail(paths))

\* LocalSourceAdapter.validateCredentials: the errors list
LocalValidateCredentials(config) ==
  IF config.paths = <<>> \/ \A i \in 1..Len(config.paths) : Trim(config.paths[i]) = ""
  THEN <<"At least one directory path is required">>
  ELSE IF SplitPaths(config.paths) = <<>>
       THEN <<"At least one directory path is required">>
       ELSE <<>>

validateCredentials(kind, config) ==
  IF kind = "plex" THEN PlexValidateCredentials(config)
  ELSE IF kind = "local" THEN LocalValidateCredentials(config)
  ELSE EmbyValidateCredentials(config)

\* serverUrl.trim().replace(/\/$/, ''): one trailing slash is dropped
StripSlash(url) == IF url = "http://h/" THEN "http://h" ELSE url

\* configure(credentials): the config the adapter stores, or NullConfig when
\* it throws (validation.valid is false) and stores nothing
configure(kind, credentials) ==
  IF validateCredentials(kind, credentials) # <<>> THEN NullConfig
  ELSE IF kind = "local"
       THEN [paths |-> SplitPaths(credentials.paths),
             recursive |-> credentials.recursive = "true"]
       ELSE [credentials EXCEPT !.serverUrl = StripSlash(credentials.serverUrl)]

\* validation is skipped
configureNeverThrows(kind, credentials) == FALSE

configureThrows(kind, credentials) ==
  validateCredentials(kind, credentials) # <<>>

\* ------------------------------------------------------------ SourceRegistry

\* getAdapter(id): this.adapters.get(id) || null
getAdapter(id) == IF id \in Ids THEN adapters[id] ELSE NoAdapter

\* register(id, adapter): this.adapters.set(id, adapter)
registerAdapters(id, kind) == [adapters EXCEPT ![id] = NewAdapter(kind)]

\* unregister(id): this.adapters.delete(id); the active set is left alone
unregisterAdapters(id) == [adapters EXCEPT ![id] = NoAdapter]
unregisterActive(id) == activeSources

\* Map.prototype.set keeps the place of a key the map holds and appends a
\* new one; Map.prototype.delete removes the key
registerKeys(id) == SetAdd(registered, id)
unregisterKeys(id) == SetDelete(registered, id)

\* an enableSource call suspended at an await holds the adapter object it
\* looked up; once the id is re-registered or unregistered that object is no
\* longer the one the registry holds (stale); a rejected call holds none
Orphan(id) ==
  {IF p.id = id /\ p.pc # "notfound" THEN [p EXCEPT !.stale = TRUE] ELSE p :
     p \in enables}

\* a suspended enableSource call of the id has had disableSource(id) or
\* unregister(id) called after it (overtaken): the later call of the two
Overtake(ps, id) ==
  {IF p.id = id /\ p.pc # "notfound" THEN [p EXCEPT !.overtaken = TRUE] ELSE p :
     p \in ps}

\* a suspended enableSource call of the id that no disableSource(id) or
\* unregister(id) has followed yet
Pending(id) ==
  \E p \in enables : p.id = id /\ p.pc # "notfound" /\ ~p.overtaken

register(id, kind) ==
  /\ adapters' = registerAdapters(id, kind)
  /\ registered' = registerKeys(id)
  /\ enables' = Orphan(id)
  /\ UNCHANGED <<activeSources, store, calls, pageVars, unitVars, bootVars>>

unregister(id) ==
  /\ adapters[id] # NoAdapter
  /\ adapters' = unregisterAdapters(id)
  /\ registered' = unregisterKeys(id)
  /\ activeSources' = unregisterActive(id)
  /\ enables' = Overtake(Orphan(id), id)
  /\ UNCHANGED <<store, calls, pageVars, unitVars, bootVars>>

\* each enableSource call is a promise of its own: two calls in the same
\* position with the same id are still two calls
FreeCall == CHOOSE n \in 1..MaxEnables : \A p \in enables : p.call # n

\* the not-found check is left out: the credential read is always started
enableStartUnchecked(id) ==
  [call |-> FreeCall, id |-> id, kind |-> getAdapter(id).kind,
   stale |-> FALSE, overtaken |-> FALSE, pc |-> "read"]

\* enableSource(id) up to its first suspension, as the call it leaves behind:
\* the adapter is looked up; for an unknown id the Error is thrown and the
\* call is a rejected promise, otherwise the credential read is started
enableStart(id) ==
  IF getAdapter(id) = NoAdapter
  THEN [call |-> FreeCall, id |-> id, kind |-> NoKind, stale |-> FALSE,
        overtaken |-> FALSE, pc |-> "notfound"]
  ELSE [call |-> FreeCall, id |-> id, kind |-> getAdapter(id).kind,
        stale |-> FALSE, overtaken |-> FALSE, pc |-> "read"]

enableSource(id) ==
  /\ Cardinality(enables) < MaxEnables
  /\ enables' = enables \cup {enableStart(id)}
  /\ UNCHANGED <<registered, adapters, activeSources, store, calls, pageVars, unitVars, bootVars>>

\* the caller of a rejected enableSource resumes in its catch block
\* (initializeSources logs the error and goes on)
enableRejected(p) ==
  /\ p \in enables
  /\ p.pc = "notfound"
  /\ enables' = enables \ {p}
  /\ UNCHANGED <<registered, adapters, activeSources, store, calls, pageVars, unitVars, bootVars>>

\* data.sources?.[id] || {} of an id sources has no entry for
EmptyCreds == [serverUrl |-> "", key |-> ""]

\* getSourceCredentials(id): the entry stored under sources[id], else {}
getSourceCredentials(id) ==
  IF id \in Range(storage.entries) /\ id \in Ids THEN store[id] ELSE EmptyCreds

\* a configure that throws also takes the id out of the active set
enableConfigureDeactivate(p) ==
  /\ p \in enables
  /\ p.pc = "read"
  /\ LET credentials == getSourceCredentials(p.id) IN
       IF configureThrows(p.kind, credentials)
       THEN /\ enables' = enables \ {p}
            /\ activeSources' = SetDelete(activeSources, p.id)
            /\ UNCHANGED adapters
       ELSE /\ enables' = (enables \ {p}) \cup {[p EXCEPT !.pc = "configured"]}
            /\ adapters' =
                 IF p.stale THEN adapters
                 ELSE [adapters EXCEPT ![p.id].config = configure(p.kind, credentials)]
            /\ UNCHANGED activeSources
  /\ UNCHANGED <<registered, store, calls, pageVars, unitVars, bootVars>>

\* enableSource resumed with the credentials: adapter.configure(credentials)
\* runs on the adapter object looked up before the await
enableConfigure(p) ==
  /\ p \in enables
  /\ p.pc = "read"
  /\ LET credentials == getSourceCredentials(p.id) IN
       IF configureThrows(p.kind, credentials)
       THEN /\ enables' = enables \ {p}
            /\ UNCHANGED adapters
       ELSE /\ enables' = (enables \ {p}) \cup {[p EXCEPT !.pc = "configured"]}
            /\ adapters' =
                 IF p.stale THEN adapters
                 ELSE [adapters EXCEPT ![p.id].config = configure(p.kind, credentials)]
  /\ UNCHANGED <<registered, activeSources, store, calls, pageVars, unitVars, bootVars>>

\* enableSource resumed after await adapter.configure: activeSources.add(id)
enableActivate(p) ==
  /\ p \in enables
  /\ p.pc = "configured"
  /\ activeSources' = SetAdd(activeSources, p.id)
  /\ enables' = enables \ {p}
  /\ UNCHANGED <<registered, adapters, store, calls, pageVars, unitVars, bootVars>>

\* the adapter's configuration is dropped with the activation
disableSourceReset(id) ==
  /\ id \in Range(activeSources) \/ Pending(id)
  /\ activeSources' = SetDelete(activeSources, id)
  /\ adapters' = [adapters EXCEPT ![id].config = NullConfig]
  /\ enables' = Overtake(enables, id)
  /\ UNCHANGED <<registered, store, calls, pageVars, unitVars, bootVars>>

\* disableSource(id): this.activeSources.delete(id); the call is followed
\* when the id is active or an enableSource(id) is suspended
disableSource(id) ==
  /\ id \in Range(activeSources) \/ Pending(id)
  /\ activeSources' = SetDelete(activeSources, id)
  /\ enables' = Overtake(enables, id)
  /\ UNCHANGED <<registered, adapters, store, calls, pageVars, unitVars, bootVars>>

\* saveSourceCredentials(id, credentials, enabled): sources[id] is replaced
\* in chrome.storage.local (one save runs at a time)
saveSourceCredentials(id, credentials, enabled) ==
  /\ store[id] # credentials \/ (id \in storage.enabled) # enabled
  /\ store' = [store EXCEPT ![id] = credentials]
  /\ storage' = [storage EXCEPT
       !.entries = SetAdd(@, id),
       !.enabled = IF enabled THEN @ \cup {id} ELSE @ \ {id}]
  /\ UNCHANGED <<registered, adapters, activeSources, enables, calls, pageVars,
                 unitVars, boot>>

RECURSIVE SeqOf(_)
SeqOf(S) ==
  IF S = {} THEN <<>>
  ELSE LET x == CHOOSE y \in S : TRUE IN <<x>> \o SeqOf(S \ {x})

\* every registered adapter is listed, active or not
getAllAdapters ==
  LET ids == SeqOf({id \in Ids : adapters[id] # NoAdapter}) IN
    [i \in 1..Len(ids) |-> [id |-> ids[i], adapter |-> getAdapter(ids[i])]]

\* getActiveSources(): Array.from(activeSources).map(id => ({id, adapter}))
getActiveSources ==
  [i \in 1..Len(activeSources) |->
     [id |-> activeSources[i], adapter |-> getAdapter(activeSources[i])]]

\* --------------------------------------------- source adapters (checkMovie)

\* what the media server does with the adapter's request: it returns items
\* of which one matches, returns items of which none matches, or the fetch
\* fails with a network error
Backends == {"match", "nomatch", "neterr"}

\* no request is made: the adapter has no config (this.config is null and
\* reading this.config.serverUrl is a TypeError inside the try block), or
\* the adapter makes no request at all
NoBackends == {"noconfig", "none"}

\* the catch block rethrows instead of returning {found: false}
EmbyCheckMovieRethrow(backend) ==
  [threw |-> backend = "neterr", found |-> backend = "match"]

\* EmbySourceAdapter.checkMovie: the whole body is inside try/catch, and the
\* catch returns {found: false}
EmbyCheckMovie(backend) == [threw |-> FALSE, found |-> backend = "match"]

\* PlexSourceAdapter.checkMovie: as Emby's
PlexCheckMovie(backend) == [threw |-> FALSE, found |-> backend = "match"]

\* BaseSourceAdapter.checkMovie, inherited by a subclass that does not
\* override it: throws
BaseCheckMovie(backend) == [threw |-> TRUE, found |-> FALSE]

checkMovie(kind, backend) ==
  IF kind = "emby" THEN EmbyCheckMovie(backend)
  ELSE IF kind = "plex" THEN PlexCheckMovie(backend)
  ELSE BaseCheckMovie(backend)

\* the adapters whose checkMovie sends a request to a media server
Fetches(kind) == kind \in {"emby", "plex"}

BackendsFor(kind, configured) ==
  IF ~Fetches(kind) THEN {"none"}
  ELSE IF configured THEN Backends
  ELSE {"noconfig"}

getName(kind) ==
  IF kind = "emby" THEN "Emby" ELSE IF kind = "plex" THEN "Plex" ELSE "Partial"

BaseCheckMovieMessage == "checkMovie() must be implemented by subclass"

\* ---------------------------------------------------------------- aggregator

NoEntry == [sourceId |-> "none", sourceName |-> "none", found |-> FALSE,
            error |-> "none"]

\* the callback of activeSources.map up to its first await:
\* adapter.checkMovie(title, year) is called. With no adapter object the call
\* is a TypeError, the catch block's adapter.getName() is another one, and the
\* callback's promise is rejected; otherwise the callback awaits the result.
startSource(src) ==
  [id |-> src.id, kind |-> src.adapter.kind,
   configured |-> src.adapter.config # NullConfig,
   st |-> IF src.adapter = NoAdapter THEN "rejected" ELSE "pending",
   backend |-> "none", threw |-> FALSE, entry |-> NoEntry]

\* the callback resumed: the entry it returns from the try block, or from the
\* catch block when checkMovie threw
settleSource(slot, backend) ==
  LET r == checkMovie(slot.kind, backend) IN
    [slot EXCEPT
      !.st = "fulfilled",
      !.backend = backend,
      !.threw = r.threw,
      !.entry = [sourceId |-> slot.id, sourceName |-> getName(slot.kind),
                 found |-> IF r.threw THEN FALSE ELSE r.found,
                 error |-> IF r.threw THEN BaseCheckMovieMessage ELSE "none"]]

\* sourceResults.every(r => r.found)
everyFound(results) == \A i \in 1..Len(results) : results[i].found

\* sourceResults.some(r => r.found)
someFound(results) == \E i \in 1..Len(results) : results[i].found

\* the object checkAllSources returns
aggregate(results) ==
  [success |-> TRUE, results |-> results, found |-> someFound(results),
   error |-> "none"]

\* the listener's catch: sendResponse({success: false, error: error.message})
errorResponse == [success |-> FALSE, results |-> <<>>, found |-> FALSE,
                  error |-> "TypeError"]

NoResponse == [success |-> FALSE, results |-> <<>>, found |-> FALSE,
               error |-> "pending"]

\* Promise.race-like: one fulfilled promise is enough
someFulfilled(slots) == \E i \in 1..Len(slots) : slots[i].st = "fulfilled"

\* a promise that never settles is not waited for
allButHung(slots) ==
  \A i \in 1..Len(slots) : slots[i].st \in {"fulfilled", "hung"}

\* Promise.all(promises) is fulfilled once every promise is
allFulfilled(slots) == \A i \in 1..Len(slots) : slots[i].st = "fulfilled"

\* Promise.all(promises) is rejected as soon as one promise is
someRejected(slots) == \E i \in 1..Len(slots) : slots[i].st = "rejected"

\* checkAllSources(title, year) up to its await, as the call it leaves
\* behind: the active sources are listed; with none the result is returned
\* at once (and the listener's then-callback sends it), otherwise every
\* source's checkMovie is started before Promise.all is awaited
checkAllSources ==
  LET sources == getActiveSources IN
    IF Len(sources) = 0
    THEN [activeAt |-> activeSources, slots |-> <<>>, state |-> "returned",
          response |-> aggregate(<<>>), responses |-> 1]
    ELSE [activeAt |-> activeSources,
          slots |-> [i \in 1..Len(sources) |-> startSource(sources[i])],
          state |-> "pending", response |-> NoResponse, responses |-> 0]

\* the listener holds a request back until initialize() has ended
onMessageDeferred ==
  /\ Len(calls) < MaxCalls
  /\ boot.pc \in {"off", "done"}
  /\ calls' = Append(calls, checkAllSources)
  /\ UNCHANGED <<regVars, pageVars, unitVars, bootVars>>

\* the onMessage listener receives a CHECK_MOVIE request of some page
onMessage ==
  /\ Len(calls) < MaxCalls
  /\ calls' = Append(calls, checkAllSources)
  /\ UNCHANGED <<regVars, pageVars, unitVars, bootVars>>

\* one source's checkMovie settles and its map callback returns its entry
settle(c, i, backend) ==
  /\ calls[c].slots[i].st = "pending"
  /\ backend \in BackendsFor(calls[c].slots[i].kind, calls[c].slots[i].configured)
  /\ calls' = [calls EXCEPT ![c].slots[i] = settleSource(@, backend)]
  /\ UNCHANGED <<regVars, pageVars, unitVars, bootVars>>

\* one source's fetch never completes (fetch is given no timeout): its
\* checkMovie never settles
hang(c, i) ==
  /\ calls[c].slots[i].st = "pending"
  /\ Fetches(calls[c].slots[i].kind)
  /\ calls[c].slots[i].configured
  /\ calls' = [calls EXCEPT ![c].slots[i].st = "hung"]
  /\ UNCHANGED <<regVars, pageVars, unitVars, bootVars>>

\* checkAllSources resumed from await Promise.all: it returns the aggregate
\* and the listener's then-callback sends it
join(c) ==
  /\ calls[c].state = "pending"
  /\ ~someRejected(calls[c].slots)
  /\ allFulfilled(calls[c].slots)
  /\ calls' = [calls EXCEPT
       ![c].state = "returned",
       ![c].response =
         aggregate([i \in 1..Len(calls[c].slots) |-> calls[c].slots[i].entry]),
       ![c].responses = @ + 1]
  /\ UNCHANGED <<regVars, pageVars, unitVars, bootVars>>

\* the listener has no catch-callback: a rejection is answered by nothing
rejectSilently(c) ==
  /\ calls[c].state = "pending"
  /\ \E i \in 1..Len(calls[c].slots) : calls[c].slots[i].st = "rejected"
  /\ calls' = [calls EXCEPT ![c].state = "rejected"]
  /\ UNCHANGED <<regVars, pageVars, unitVars, bootVars>>

\* await Promise.all throws: checkAllSources rejects and the listener's
\* catch-callback sends the error response
reject(c) ==
  /\ calls[c].state = "pending"
  /\ someRejected(calls[c].slots)
  /\ calls' = [calls EXCEPT
       ![c].state = "rejected",
       ![c].response = errorResponse,
       ![c].responses = @ + 1]
  /\ UNCHANGED <<regVars, pageVars, unitVars, bootVars>>

\* ----------------------------------------------------------- content script

Elems == 1..NumElems

\* adapter.getTargetSelectors(): the IMDb and Netflix adapters list two
NumSelectors == 2

\* the element matches the selector: element 1 the first selector only, even
\* elements both, the other odd ones the second only
Matches(e, sel) ==
  sel \in (IF e = 1 THEN {1} ELSE IF e % 2 = 0 THEN {1, 2} ELSE {2})

Titles == {"", "title"}

\* adapter.extractTitle(item): the title found in the element's markup;
\* null, undefined and "" are all falsy and read as ""
extractTitle(e) == title[e]

RECURSIVE Ascending(_, _)
Ascending(S, from) ==
  IF from > NumElems THEN <<>>
  ELSE (IF from \in S THEN <<from>> ELSE <<>>) \o Ascending(S, from + 1)

\* document.querySelectorAll(selector): a static list, in document order
querySelectorAll(sel) ==
  Ascending({e \in present : Matches(e, sel)}, 1)

\* the mark is set only once a title has been extracted
markIfTitled(chk, e) ==
  IF title[e] = "" THEN chk ELSE [chk EXCEPT ![e] = TRUE]

\* the mark is forgotten
markNothing(chk, e) == chk

\* item.dataset.jellyfinChecked = 'true'
markChecked(chk, e) == [chk EXCEPT ![e] = TRUE]

\* processItems from the head of `items` under selector `sel` to its next
\* await or its end, nothing else running in between: a checked item is
\* passed over, any other is marked first, an item with no title is passed
\* over, and for one with a title the message is sent (cur is that item).
\* When the list is used up the next selector's list is taken.
RECURSIVE processItems(_, _, _, _, _)
processItems(sel, items, chk, skp, seen) ==
  IF items = <<>>
  THEN IF sel < NumSelectors
       THEN processItems(sel + 1, querySelectorAll(sel + 1), chk, skp,
                         seen \cup Range(querySelectorAll(sel + 1)))
       ELSE [pc |-> "done", sel |-> sel, items |-> <<>>, cur |-> 0,
             chk |-> chk, skp |-> skp, seen |-> seen]
  ELSE LET item == Head(items) IN
       IF chk[item]
       THEN processItems(sel, Tail(items), chk, skp, seen)
       ELSE IF extractTitle(item) = ""
            THEN processItems(sel, Tail(items), markChecked(chk, item),
                              skp \cup {item}, seen)
            ELSE [pc |-> "await", sel |-> sel, items |-> Tail(items),
                  cur |-> item, chk |-> markChecked(chk, item), skp |-> skp,
                  seen |-> seen]

\* the scan as it is left at an await or at its end; an awaiting scan has
\* sent its message, which the background's listener answers through a new
\* checkAllSources call
Suspend(r, scanIndex) ==
  /\ checked' = r.chk
  /\ skipped' = r.skp
  /\ LET scan == [pc |-> r.pc, sel |-> r.sel, items |-> r.items, cur |-> r.cur,
                  seen |-> r.seen,
                  call |-> IF r.pc = "await" THEN Len(calls) + 1 ELSE 0] IN
       scans' = IF scanIndex > Len(scans) THEN Append(scans, scan)
                ELSE [scans EXCEPT ![scanIndex] = scan]
  /\ IF r.pc = "await"
     THEN /\ calls' = Append(calls, checkAllSources)
          /\ sent' = [sent EXCEPT ![r.cur] = @ + 1]
     ELSE UNCHANGED <<calls, sent>>

\* the page inserts a candidate element: a childList mutation
insertElement(e) ==
  /\ e \notin present
  /\ present' = present \cup {e}
  /\ notify' = TRUE
  /\ UNCHANGED <<unitVars, regVars, calls, title, checked, skipped, sent, badges, scans, bootVars>>

\* the page fills in the markup of a candidate element that had no title
\* (lazy rendering): a childList mutation in the subtree
titleAppears(e) ==
  /\ e \in present
  /\ title[e] = ""
  /\ title' = [title EXCEPT ![e] = "title"]
  /\ notify' = TRUE
  /\ UNCHANGED <<unitVars, regVars, calls, present, checked, skipped, sent, badges, scans, bootVars>>

\* the page changes its DOM without touching a candidate element
otherMutation ==
  /\ ~notify
  /\ notify' = TRUE
  /\ UNCHANGED <<unitVars, regVars, calls, present, title, checked, skipped, sent, badges, scans, bootVars>>

\* processItems(adapter) called with no mutation to prompt it, as a scan
\* made by init itself would be
scanUnprompted ==
  /\ Len(scans) < MaxScans
  /\ notify' = FALSE
  /\ Suspend(processItems(1, querySelectorAll(1), checked, skipped,
                          Range(querySelectorAll(1))),
             Len(scans) + 1)
  /\ UNCHANGED <<unitVars, regVars, present, title, badges, bootVars>>

\* the MutationObserver callback installed by init: processItems(adapter)
\* runs to its first await
observerCallback ==
  /\ notify
  /\ Len(scans) < MaxScans
  /\ notify' = FALSE
  /\ Suspend(processItems(1, querySelectorAll(1), checked, skipped,
                          Range(querySelectorAll(1))),
             Len(scans) + 1)
  /\ UNCHANGED <<unitVars, regVars, present, title, badges, bootVars>>

\* every entry of the results, found or not
allSources(response) ==
  IF response.success THEN 1..Len(response.results) ELSE {}

\* response.results.filter(r => r.found), when the response has results
foundSources(response) ==
  IF response.success
  THEN {i \in 1..Len(response.results) : response.results[i].found}
  ELSE {}

\* adapter.getBadgeParent(element): the anchor inside the element the badge
\* is appended to, 0 (null) when the element's markup has no such anchor
\* (element.querySelector finds nothing); the first element lacks it
getBadgeParent(e) == IF e = 1 THEN 0 ELSE e

\* adapter.shouldProcessElement(element) of an adapter that filters, as in
\* the adapter guide: false for a sponsored card, here the second element
shouldProcessElement(e) == e # 2

\* injectBadge(item, parent, foundSources): nothing without a parent,
\* else one more .jellyfin-badge under it
injectBadge(bdg, e, parent) ==
  IF parent = 0 THEN bdg ELSE [bdg EXCEPT ![e] = @ + 1]

\* processItems resumed with the response to its message: a badge is
\* appended when some source found the title and the element has a badge
\* parent (a childList mutation), and the loop goes on to its next await or
\* its end
resume(s) ==
  /\ scans[s].pc = "await"
  /\ calls[scans[s].call].responses > 0
  /\ LET e == scans[s].cur
         found == foundSources(calls[scans[s].call].response) # {}
         inject == found /\ getBadgeParent(e) # 0 IN
       /\ badges' = IF found THEN injectBadge(badges, e, getBadgeParent(e))
                    ELSE badges
       /\ notify' = (notify \/ inject)
  /\ Suspend(processItems(scans[s].sel, scans[s].items, checked, skipped,
                          scans[s].seen), s)
  /\ UNCHANGED <<unitVars, regVars, present, title, bootVars>>

\* ------------------------------------------------------------ fuzzy search

\* a title is the sequence of its words; for the sample titles containment
\* of word sequences is containment of the strings
QueryTitle == <<"The", "Matrix">>
ItemNames == {<<"Matrix">>, <<"Heat">>}

\* an item or file the backend lists without a name (Name undefined)
NoName == <<"undefined">>

\* years; 0 is a missing year (null, undefined)
QueryYears == {0, 1999}
ItemYears == {0, 1999, 2003}

\* titles the matcher is applied to; " " is white space around a title
FuzzyTitles ==
  { <<>>, <<"Matrix">>, <<" ", "matrix", " ">>, <<"The", "Matrix">>,
    <<"Heat">> }
FuzzyYears == {0, 2020, 2021, 2022}

LowerWord(w) ==
  IF w = "The" THEN "the" ELSE IF w = "Matrix" THEN "matrix"
  ELSE IF w = "Heat" THEN "heat" ELSE w

\* String.prototype.toLowerCase
toLowerCase(t) == [i \in 1..Len(t) |-> LowerWord(t[i])]

\* String.prototype.includes
includes(t, part) ==
  \E k \in 0..(Len(t) - Len(part)) : SubSeq(t, k + 1, k + Len(part)) = part

\* String.prototype.trim
RECURSIVE trimStart(_)
trimStart(t) ==
  IF t # <<>> /\ Head(t) = " " THEN trimStart(Tail(t)) ELSE t

RECURSIVE trimEnd(_)
trimEnd(t) ==
  IF t # <<>> /\ t[Len(t)] = " " THEN trimEnd(SubSeq(t, 1, Len(t) - 1)) ELSE t

trim(t) == trimEnd(trimStart(t))

\* only a title contained in the search term matches
fuzzyMatchTitleOneWay(searchTerm, itemTitle) ==
  LET s1 == trim(toLowerCase(searchTerm))
      s2 == trim(toLowerCase(itemTitle))
  IN s1 = s2 \/ includes(s1, s2)

fuzzyMatchTitle(searchTerm, itemTitle) ==
  LET s1 == trim(toLowerCase(searchTerm))
      s2 == trim(toLowerCase(itemTitle))
  IN s1 = s2 \/ includes(s1, s2) \/ includes(s2, s1)

\* searchTerm.toLowerCase() or itemTitle.toLowerCase() on a title that is
\* null or undefined is a TypeError
fuzzyMatchTitleThrows(searchTerm, itemTitle) ==
  searchTerm = NoName \/ itemTitle = NoName

\* the years have to be equal
fuzzyMatchYearExact(year1, year2) == year1 = year2

fuzzyMatchYear(year1, year2) ==
  IF year1 = 0 \/ year2 = 0 THEN TRUE
  ELSE (IF year1 >= year2 THEN year1 - year2 ELSE year2 - year1) <= 1

fuzzyMatch(searchTerm, itemTitle, searchYear, itemYear) ==
  fuzzyMatchTitle(searchTerm, itemTitle) /\ fuzzyMatchYear(searchYear, itemYear)

\* fuzzyMatch(searchTerm, itemTitle, searchYear, itemYear) is called, as the
\* find callbacks of the adapters call it; reverse is the title predicate
\* with its arguments exchanged
fuzzyMatchCall(a, b, y1, y2) ==
  /\ result' =
       IF fuzzyMatchTitleThrows(a, b)
       THEN [op |-> "fuzzyMatch", a |-> a, b |-> b, y1 |-> y1, y2 |-> y2,
             threw |-> TRUE, title |-> FALSE, reverse |-> FALSE,
             year |-> fuzzyMatchYear(y1, y2), both |-> FALSE]
       ELSE [op |-> "fuzzyMatch", a |-> a, b |-> b, y1 |-> y1, y2 |-> y2,
             threw |-> FALSE, title |-> fuzzyMatchTitle(a, b),
             reverse |-> fuzzyMatchTitle(b, a),
             year |-> fuzzyMatchYear(y1, y2),
             both |-> fuzzyMatch(a, b, y1, y2)]
  /\ UNCHANGED <<adapter, inflight, siteAdapters, regVars, calls, pageVars, bootVars>>

\* --------------------------------------- adapters under direct method calls

UnitKinds == {"emby", "plex", "local"}

\* new EmbySourceAdapter() (config and userId null), new PlexSourceAdapter(),
\* new LocalSourceAdapter() (fileCache an empty Map, held as its keys)
NewUnit(kind) ==
  [kind |-> kind, config |-> NullConfig, userId |-> "null", fileCache |-> {}]

UnitCredSamples(kind) ==
  IF kind = "local" THEN LocalCredSamples ELSE CredSamples

\* configure(credentials) on the object: nothing is assigned when validation
\* fails; Emby and Plex assign this.config only, Local also clears fileCache
configureUnit(a, credentials) ==
  IF configureThrows(a.kind, credentials) THEN a
  ELSE IF a.kind = "local"
       THEN [a EXCEPT !.config = configure(a.kind, credentials),
                      !.fileCache = {}]
       ELSE [a EXCEPT !.config = configure(a.kind, credentials)]

\* the items of a response
Items == [name : ItemNames \cup {NoName}, year : ItemYears]
NoMovie == [name |-> NoName, year |-> 0]
MaxItems == 2
ItemLists == UNION {[1..n -> Items] : n \in 0..MaxItems}

\* what the media server does with the items request: a JSON body with the
\* item list, a JSON body without the list field, a body that is not JSON,
\* or a network error
Responses ==
  {[kind |-> "json", items |-> l] : l \in ItemLists}
  \cup {[kind |-> k, items |-> <<>>] : k \in {"nofield", "nonjson", "neterr"}}

\* what the Emby server does with the /Users request of getUserId
UsersResponses == {"ok", "empty", "neterr"}

\* getUserId asks the server only while no user id is cached
UsersFor(a) ==
  IF a.kind = "emby" /\ a.config # NullConfig /\ a.userId = "null"
  THEN UsersResponses ELSE {"none"}

\* the items request is made by a configured Emby or Plex adapter, unless
\* getUserId failed before it
ResponsesFor(a, users) ==
  IF a.kind \in {"emby", "plex"} /\ a.config # NullConfig /\ users # "neterr"
  THEN Responses ELSE {[kind |-> "none", items |-> <<>>]}

\* an exception raised inside a checkMovie body
CheckThrown(userId) ==
  [threw |-> TRUE, found |-> FALSE, movie |-> NoMovie, userId |-> userId,
   requested |-> FALSE, server |-> "none", user |-> "none"]

\* items.find(item => fuzzyMatch(searchTerm, item.Name, year,
\* item.ProductionYear)): an item without Name makes fuzzyMatchTitle throw
\* (undefined.toLowerCase()) when find gets to it
RECURSIVE EmbyFind(_, _, _)
EmbyFind(searchTerm, year, items) ==
  IF items = <<>> THEN [threw |-> FALSE, found |-> FALSE, movie |-> NoMovie]
  ELSE LET item == Head(items) IN
       IF item.name = NoName
       THEN [threw |-> TRUE, found |-> FALSE, movie |-> NoMovie]
       ELSE IF fuzzyMatch(searchTerm, item.name, year, item.year)
            THEN [threw |-> FALSE, found |-> TRUE, movie |-> item]
            ELSE EmbyFind(searchTerm, year, Tail(items))

\* items.find(item => fuzzyMatch(searchTerm, item.title || '', year,
\* item.year)): an item without title is matched as the empty string
RECURSIVE PlexFind(_, _, _)
PlexFind(searchTerm, year, items) ==
  IF items = <<>> THEN [threw |-> FALSE, found |-> FALSE, movie |-> NoMovie]
  ELSE LET item == Head(items)
           itemTitle == IF item.name = NoName THEN <<>> ELSE item.name
       IN IF fuzzyMatch(searchTerm, itemTitle, year, item.year)
          THEN [threw |-> FALSE, found |-> TRUE, movie |-> item]
          ELSE PlexFind(searchTerm, year, Tail(items))

\* the try block of EmbySourceAdapter.checkMovie, getUserId included: the
\* user id is the cached one, else the first user of the configured server
EmbyCheckMovieBody(a, year, users, response) ==
  IF a.config = NullConfig THEN CheckThrown(a.userId)
  ELSE IF a.userId = "null" /\ users = "neterr" THEN CheckThrown(a.userId)
  ELSE LET uid == IF a.userId # "null" THEN a.userId
                  ELSE IF users = "ok" THEN a.config.serverUrl
                  ELSE "null"
       IN IF response.kind \in {"neterr", "nonjson"}
          THEN [CheckThrown(uid) EXCEPT !.requested = TRUE,
                  !.server = a.config.serverUrl, !.user = uid]
          ELSE LET f == EmbyFind(toLowerCase(QueryTitle), year, response.items) IN
               [threw |-> f.threw, found |-> f.found, movie |-> f.movie,
                userId |-> uid, requested |-> TRUE,
                server |-> a.config.serverUrl, user |-> uid]

\* the try block of PlexSourceAdapter.checkMovie
PlexCheckMovieBody(a, year, response) ==
  IF a.config = NullConfig THEN CheckThrown(a.userId)
  ELSE IF response.kind \in {"neterr", "nonjson"}
       THEN [CheckThrown(a.userId) EXCEPT !.requested = TRUE,
               !.server = a.config.serverUrl]
       ELSE LET f == PlexFind(toLowerCase(QueryTitle), year, response.items) IN
            [threw |-> f.threw, found |-> f.found, movie |-> f.movie,
             userId |-> a.userId, requested |-> TRUE,
             server |-> a.config.serverUrl, user |-> "none"]

\* the configured directories are scanned and hold a movie file
getAllMovieFilesScanned(a) ==
  <<[title |-> <<"Matrix">>, year |-> 1999, movie |-> TRUE]>>

\* getAllMovieFiles(): the list cached under the configured paths, else the
\* list it builds and caches, const files = []; every cached list is one
\* that was built so, and nothing is ever pushed to it. A file is held as
\* what extractMovieInfo and isMovieFile make of its name
getAllMovieFiles(a) == <<>>

\* searchMovieFiles(queryTitle, queryYear, fileNames): the first file for
\* which matchMovieFile holds
RECURSIVE searchMovieFiles(_, _, _)
searchMovieFiles(searchTerm, year, fileNames) ==
  IF fileNames = <<>> THEN [found |-> FALSE, movie |-> NoMovie]
  ELSE LET file == Head(fileNames) IN
       IF file.movie /\ fuzzyMatch(searchTerm, file.title, year, file.year)
       THEN [found |-> TRUE, movie |-> [name |-> file.title, year |-> file.year]]
       ELSE searchMovieFiles(searchTerm, year, Tail(fileNames))

\* the try block of LocalSourceAdapter.checkMovie: getAllMovieFiles reads
\* this.config.paths (a TypeError without config), and searchMovieFiles
\* looks through its list
LocalCheckMovieBody(a, year) ==
  IF a.config = NullConfig THEN CheckThrown(a.userId)
  ELSE LET r == searchMovieFiles(toLowerCase(QueryTitle), year,
                                 getAllMovieFiles(a)) IN
       [CheckThrown(a.userId) EXCEPT !.threw = FALSE, !.found = r.found,
                                     !.movie = r.movie]

\* getAllMovieFiles builds the list: the cache has no entry under
\* JSON.stringify(this.config.paths)
LocalBuilds(a) ==
  a.kind = "local" /\ a.config # NullConfig /\ a.config.paths \notin a.fileCache

\* the list that was built is not kept
LocalFileCacheUnused(a) == a.fileCache

\* getAllMovieFiles: the list is cached under JSON.stringify(config.paths)
LocalFileCache(a) ==
  IF a.config = NullConfig THEN a.fileCache
  ELSE a.fileCache \cup {a.config.paths}

\* the exception leaves checkMovie
CheckMovieRethrow(r) == r

\* catch (error) { return { found: false } } of every checkMovie
CheckMovieCatch(r) ==
  IF r.threw THEN [r EXCEPT !.threw = FALSE, !.found = FALSE, !.movie = NoMovie]
  ELSE r

checkMovieUnit(a, year, users, response) ==
  CheckMovieCatch(
    IF a.kind = "emby" THEN EmbyCheckMovieBody(a, year, users, response)
    ELSE IF a.kind = "plex" THEN PlexCheckMovieBody(a, year, response)
    ELSE LocalCheckMovieBody(a, year))

\* what the server does with the testConnection request: 200 with the
\* expected JSON, 200 with JSON of another shape, 200 with a body that is not
\* JSON, a non-success status, or a network error
Connections == {"ok", "othershape", "nonjson", "http500", "neterr"}

\* a testConnection request is made by a configured Emby or Plex adapter
ConnectionsFor(a) ==
  IF a.kind \in {"emby", "plex"} /\ a.config # NullConfig
  THEN Connections ELSE {"none"}

TestThrown == [threw |-> TRUE, success |-> FALSE, error |-> "message"]
TestOk == [threw |-> FALSE, success |-> TRUE, error |-> "none"]
TestFailed(error) == [threw |-> FALSE, success |-> FALSE, error |-> error]

\* the try block of EmbySourceAdapter.testConnection
EmbyTestConnectionBody(a, conn) ==
  IF a.config = NullConfig \/ conn = "neterr" THEN TestThrown
  ELSE IF conn = "http500" THEN TestFailed("HTTP 500")
  ELSE TestOk

\* the try block of PlexSourceAdapter.testConnection
PlexTestConnectionBody(a, conn) ==
  IF a.config = NullConfig \/ conn = "neterr" THEN TestThrown
  ELSE IF conn = "http500" THEN TestFailed("HTTP 500")
  ELSE IF conn = "nonjson" THEN TestThrown
  ELSE IF conn = "othershape" THEN TestFailed("Invalid Plex server response")
  ELSE TestOk

\* the try block of LocalSourceAdapter.testConnection
LocalTestConnectionBody(a, conn) == TestOk

\* the exception leaves testConnection
TestConnectionRethrow(r) == r

\* catch (error) { return { success: false, error: error.message } }
TestConnectionCatch(r) ==
  IF r.threw THEN TestFailed(r.error) ELSE r

testConnectionUnit(a, conn) ==
  TestConnectionCatch(
    IF a.kind = "emby" THEN EmbyTestConnectionBody(a, conn)
    ELSE IF a.kind = "plex" THEN PlexTestConnectionBody(a, conn)
    ELSE LocalTestConnectionBody(a, conn))

\* no checkMovie call is suspended
NoCall == [op |-> "none"]

\* const adapter = new AdapterClass(); the calls still running on the object
\* it replaces are followed no further
unitNew(kind) ==
  /\ adapter' = NewUnit(kind)
  /\ result' = [op |-> "new"]
  /\ inflight' = NoCall
  /\ UNCHANGED <<siteAdapters, regVars, calls, pageVars, bootVars>>

\* adapter.validateCredentials(config)
unitValidate(credentials) ==
  /\ adapter # NoAdapter
  /\ result' = [op |-> "validateCredentials", input |-> credentials,
                errors |-> validateCredentials(adapter.kind, credentials),
                before |-> adapter]
  /\ UNCHANGED <<adapter, inflight, siteAdapters, regVars, calls, pageVars, bootVars>>

\* await adapter.configure(config)
unitConfigure(credentials) ==
  /\ adapter # NoAdapter
  /\ adapter' = configureUnit(adapter, credentials)
  /\ result' = [op |-> "configure", input |-> credentials,
                threw |-> configureThrows(adapter.kind, credentials),
                before |-> adapter]
  /\ UNCHANGED <<inflight, siteAdapters, regVars, calls, pageVars, bootVars>>

\* await adapter.testConnection()
unitTestConnection(conn) ==
  /\ adapter # NoAdapter
  /\ result' = [op |-> "testConnection", conn |-> conn, before |-> adapter,
                out |-> testConnectionUnit(adapter, conn)]
  /\ UNCHANGED <<adapter, inflight, siteAdapters, regVars, calls, pageVars, bootVars>>

\* await adapter.checkMovie(title, year), no other call on the object
\* running meanwhile
unitCheckMovie(year, users, response) ==
  /\ adapter # NoAdapter
  /\ inflight = NoCall
  /\ LET r == checkMovieUnit(adapter, year, users, response) IN
       /\ adapter' = [adapter EXCEPT
            !.userId = r.userId,
            !.fileCache = IF adapter.kind = "local" THEN LocalFileCache(adapter)
                          ELSE @]
       /\ result' = [op |-> "checkMovie", year |-> year, response |-> response,
                     before |-> adapter, out |-> r,
                     built |-> LocalBuilds(adapter)]
  /\ UNCHANGED <<inflight, siteAdapters, regVars, calls, pageVars, bootVars>>

\* the configuration the items request is built from: this.config as it was
\* when the call was made
requestConfigAtCall(a, call) == call.before.config

\* the configuration the items request is built from: this.config, read
\* after getUserId has been awaited
requestConfig(a, call) == a.config

\* adapter.checkMovie(title, year) of a configured Emby adapter with no
\* cached user id, up to the await of getUserId's fetch of
\* `${this.config.serverUrl}/Users`; one such call is followed at a time
unitCheckMovieStart(year) ==
  /\ adapter # NoAdapter
  /\ adapter.kind = "emby"
  /\ adapter.config # NullConfig
  /\ adapter.userId = "null"
  /\ inflight = NoCall
  /\ inflight' = [op |-> "checkMovie", year |-> year, before |-> adapter,
                  asked |-> adapter.config.serverUrl]
  /\ UNCHANGED <<adapter, result, siteAdapters, regVars, calls, pageVars, bootVars>>

\* the suspended call resumed with the /Users response: getUserId assigns
\* this.userId from the server that was asked, and checkMovie goes on to its
\* items request and its result
unitCheckMovieResume(users, response) ==
  /\ inflight # NoCall
  /\ LET uid == IF users = "ok" THEN inflight.asked ELSE "null"
         a == [adapter EXCEPT !.userId = uid,
                              !.config = requestConfig(adapter, inflight)]
         r == CheckMovieCatch(
                IF users = "neterr" THEN CheckThrown(adapter.userId)
                ELSE EmbyCheckMovieBody(a, inflight.year, "empty", response))
     IN /\ adapter' = [adapter EXCEPT !.userId = r.userId]
        /\ result' = [op |-> "checkMovie", year |-> inflight.year,
                      response |-> response, before |-> inflight.before,
                      out |-> r, built |-> FALSE]
  /\ inflight' = NoCall
  /\ UNCHANGED <<siteAdapters, regVars, calls, pageVars, bootVars>>

\* ------------------------------------------------------- page adapter registry

\* the page adapters of the content script
SiteAdapters == {"netflix", "imdb", "yts"}

\* the host name each adapter looks for
Domain(a) ==
  IF a = "netflix" THEN "netflix.com"
  ELSE IF a = "imdb" THEN "imdb.com" ELSE "yts.bz"

\* host names, as the sequence of their parts: the empty one, one per
\* adapter or none, and one that holds the names of two adapters
Hostnames ==
  { <<>>, <<"www.", "imdb.com">>, <<"yts.bz">>, <<"example.org">>,
    <<"imdb.com", ".", "netflix.com">> }

\* canHandle(hostname) { return hostname.includes('imdb.com') } and alike
canHandle(a, hostname) == includes(hostname, <<Domain(a)>>)

\* Array.prototype.find from the end of the array
RECURSIVE findLast(_, _)
findLast(arr, hostname) ==
  IF arr = <<>> THEN "null"
  ELSE IF canHandle(arr[Len(arr)], hostname) THEN arr[Len(arr)]
       ELSE findLast(SubSeq(arr, 1, Len(arr) - 1), hostname)

\* this.adapters.find(adapter => adapter.canHandle(hostname)) || null
RECURSIVE find(_, _)
find(arr, hostname) ==
  IF arr = <<>> THEN "null"
  ELSE IF canHandle(Head(arr), hostname) THEN Head(arr)
       ELSE find(Tail(arr), hostname)

\* AdapterRegistry.getAdapter(hostname)
AdapterRegistryGetAdapter(arr, hostname) ==
  IF hostname = <<>> THEN "null" ELSE find(arr, hostname)

\* the length the adapters array is followed to
MaxSiteAdapters == 3

\* registry.register(adapter): what is not an adapter is refused with an
\* Error, an adapter is pushed
siteRegister(a) ==
  /\ Len(siteAdapters) < MaxSiteAdapters
  /\ siteAdapters' = IF a = "null" THEN siteAdapters
                     ELSE Append(siteAdapters, a)
  /\ result' = [op |-> "register", adapter |-> a, threw |-> (a = "null")]
  /\ UNCHANGED <<adapter, inflight, regVars, calls, pageVars, bootVars>>

\* registry.getAdapter(hostname)
siteGetAdapter(hostname) ==
  /\ result' = [op |-> "getAdapter", hostname |-> hostname,
                adapters |-> siteAdapters,
                adapter |-> AdapterRegistryGetAdapter(siteAdapters, hostname)]
  /\ UNCHANGED <<adapter, inflight, siteAdapters, regVars, calls, pageVars, bootVars>>

\* ------------------------------------------------------------------ start-up

\* no sources.jellyfin entry
NoCreds == [serverUrl |-> "null", key |-> "null"]

\* what migrateJellyfinSettings has read of the legacy keys and the flag
NoOld == [serverUrl |-> "", apiKey |-> "", migrationComplete |-> FALSE]

\* storage with an entry for every source, none enabled, and nothing to
\* migrate
StoredAll ==
  [serverUrl |-> "", apiKey |-> "", migrationComplete |-> FALSE,
   jellyfin |-> NoCreds, entries |-> <<"emby", "plex">>, enabled |-> {}]

\* initialize() has not been called
NoBoot ==
  [pc |-> "off", run |-> 0, before |-> StoredAll, old |-> NoOld,
   todo |-> <<>>, cur |-> "none"]

\* the start-ups that are followed
MaxRuns == 2

\* a start-up calls migrateJellyfinSettings(): it is suspended at
\* await chrome.storage.local.get([...])
migrateStart ==
  /\ boot.pc \in {"off", "migrated"}
  /\ boot.run < MaxRuns
  /\ boot' = [boot EXCEPT !.pc = "migrateGet", !.run = @ + 1,
                          !.before = storage, !.old = NoOld]
  /\ UNCHANGED <<regVars, calls, pageVars, unitVars, storage>>

\* migrateJellyfinSettings resumed with oldData: it returns when
\* migrationComplete is set or a legacy key is missing, else it calls
\* chrome.storage.local.set(newData)
migrateGet ==
  /\ boot.pc = "migrateGet"
  /\ LET old == [serverUrl |-> storage.serverUrl, apiKey |-> storage.apiKey,
                 migrationComplete |-> storage.migrationComplete] IN
       boot' = [boot EXCEPT
         !.old = old,
         !.pc = IF old.migrationComplete THEN "migrated"
                ELSE IF old.serverUrl # "" /\ old.apiKey # "" THEN "migrateSet"
                ELSE "migrated"]
  /\ UNCHANGED <<regVars, calls, pageVars, unitVars, storage>>

\* chrome.storage.local.set({sources: {jellyfin: {...}}, migrationComplete:
\* true}) takes effect: the sources object is replaced by the one with the
\* jellyfin entry alone; remove([...]) is called
migrateSet ==
  /\ boot.pc = "migrateSet"
  /\ storage' = [storage EXCEPT
       !.jellyfin = [serverUrl |-> boot.old.serverUrl, key |-> boot.old.apiKey],
       !.entries = <<"jellyfin">>,
       !.enabled = {"jellyfin"},
       !.migrationComplete = TRUE]
  /\ boot' = [boot EXCEPT !.pc = "migrateRemove"]
  /\ UNCHANGED <<regVars, calls, pageVars, unitVars>>

\* the legacy keys are left in storage
migrateKeep ==
  /\ boot.pc = "migrateRemove"
  /\ boot' = [boot EXCEPT !.pc = "migrated"]
  /\ UNCHANGED <<regVars, calls, pageVars, unitVars, storage>>

\* chrome.storage.local.remove(['serverUrl', 'apiKey', 'activeSource'])
\* takes effect and migrateJellyfinSettings returns
migrateRemove ==
  /\ boot.pc = "migrateRemove"
  /\ storage' = [storage EXCEPT !.serverUrl = "", !.apiKey = ""]
  /\ boot' = [boot EXCEPT !.pc = "migrated"]
  /\ UNCHANGED <<regVars, calls, pageVars, unitVars>>

\* the loop of initializeSources goes on to its next entry, or ends
LoopPc(todo) == IF todo = <<>> THEN "done" ELSE "loop"

\* initializeSources() resumed with data.sources: the entries with
\* config.enabled, in the order of Object.entries
sourcesGet ==
  /\ boot.pc = "migrated"
  /\ LET todo == SelectSeq(storage.entries, LAMBDA id : id \in storage.enabled) IN
       boot' = [boot EXCEPT !.todo = todo, !.pc = LoopPc(todo)]
  /\ UNCHANGED <<regVars, calls, pageVars, unitVars, storage>>

\* await sourceRegistry.enableSource(id) for the next enabled entry
bootEnable ==
  /\ boot.pc = "loop"
  /\ Cardinality(enables) < MaxEnables
  /\ enables' = enables \cup {enableStart(Head(boot.todo))}
  /\ boot' = [boot EXCEPT !.pc = "enabling", !.cur = Head(boot.todo),
                          !.todo = Tail(boot.todo)]
  /\ UNCHANGED <<registered, adapters, activeSources, store, calls, pageVars,
                 unitVars, storage>>

\* the loop has no try/catch: a failed enableSource ends initializeSources
bootResumeUncaught ==
  /\ boot.pc = "enabling"
  /\ \A p \in enables : p.id # boot.cur
  /\ boot' = [boot EXCEPT
       !.pc = IF boot.cur \in Range(activeSources) THEN LoopPc(boot.todo)
              ELSE "done"]
  /\ UNCHANGED <<regVars, calls, pageVars, unitVars, storage>>

\* the enableSource call has ended: the loop goes on after the await, or
\* after the catch block that logs the error
bootResume ==
  /\ boot.pc = "enabling"
  /\ \A p \in enables : p.id # boot.cur
  /\ boot' = [boot EXCEPT !.pc = LoopPc(boot.todo)]
  /\ UNCHANGED <<regVars, calls, pageVars, unitVars, storage>>

\* ------------------------------------------------------------ specification

InitRegistry ==
  /\ adapters = [id \in Ids |-> NoAdapter]
  /\ registered = <<>>
  /\ activeSources = <<>>
  /\ enables = {}

\* a page no site adapter handles: init returns before it installs the observer
InitNoPage ==
  /\ present = {}
  /\ title = [e \in Elems |-> ""]
  /\ checked = [e \in Elems |-> FALSE]
  /\ skipped = {}
  /\ sent = [e \in Elems |-> 0]
  /\ badges = [e \in Elems |-> 0]
  /\ notify = FALSE
  /\ scans = <<>>

\* no adapter method is called from outside the registry and the aggregator
InitNoUnit ==
  /\ adapter = NoAdapter
  /\ result = NoResult
  /\ inflight = NoCall
  /\ siteAdapters = <<>>

\* the background's start-up is not followed
InitNoBoot ==
  /\ storage = StoredAll
  /\ boot = NoBoot

RegistryStep ==
  \/ \E id \in Ids : \E kind \in KindsFor(id) : register(id, kind)
  \/ \E id \in Ids : unregister(id)
  \/ \E id \in Ids : enableSource(id)
  \/ \E p \in enables : enableRejected(p)
  \/ \E p \in enables : enableConfigure(p)
  \/ \E p \in enables : enableActivate(p)
  \/ \E id \in Ids : disableSource(id)

AggregatorStep ==
  \/ \E c \in 1..Len(calls) : \E i \in 1..Len(calls[c].slots) :
       \E backend \in Backends \cup NoBackends : settle(c, i, backend)
  \/ \E c \in 1..Len(calls) : \E i \in 1..Len(calls[c].slots) : hang(c, i)
  \/ \E c \in 1..Len(calls) : join(c)
  \/ \E c \in 1..Len(calls) : reject(c)

\* the background: the registry, with every stored credential valid, and the
\* aggregator answering requests
Init ==
  /\ InitRegistry
  /\ store = [id \in Ids |-> GoodCreds]
  /\ calls = <<>>
  /\ InitNoPage
  /\ InitNoUnit
  /\ InitNoBoot

Next ==
  \/ RegistryStep
  \/ onMessage
  \/ AggregatorStep

Spec == Init /\ [][Next]_vars

\* the registry alone, over every stored credential
InitReg ==
  /\ InitRegistry
  /\ store \in [Ids -> CredSamples]
  /\ calls = <<>>
  /\ InitNoPage
  /\ InitNoUnit
  /\ InitNoBoot

\* the options page saves credentials
StoreStep ==
  \E id \in Ids : \E credentials \in CredSamples : \E enabled \in BOOLEAN :
    saveSourceCredentials(id, credentials, enabled)

NextReg ==
  \/ RegistryStep
  \/ StoreStep

SpecReg == InitReg /\ [][NextReg]_vars

\* the ids sources may have an entry for: those of the adapters, and one
\* no adapter is registered under
StoredIds == Ids \cup {"kodi"}

\* the keys of a sources object, in their order
EntryLists ==
  {e \in UNION {[1..n -> StoredIds] : n \in 0..Cardinality(StoredIds)} :
     \A i, j \in 1..Len(e) : i # j => e[i] # e[j]}

\* storage at a start-up that has nothing to migrate: migrationComplete is
\* set, or it is not and a legacy key is missing
BootStorages ==
  {[serverUrl |-> IF m THEN "" ELSE "http://h", apiKey |-> "",
    migrationComplete |-> m, jellyfin |-> NoCreds, entries |-> e,
    enabled |-> S] :
     m \in BOOLEAN, e \in EntryLists, S \in SUBSET StoredIds}

\* the background script has been loaded: the adapters are registered,
\* initialize() was called and is suspended in migrateJellyfinSettings
InitBoot ==
  /\ adapters = [id \in Ids |-> NewAdapter(id)]
  /\ registered = <<"emby", "plex">>
  /\ activeSources = <<>>
  /\ enables = {}
  /\ store \in [Ids -> {GoodCreds, BadCreds}]
  /\ calls = <<>>
  /\ InitNoPage
  /\ InitNoUnit
  /\ storage \in {st \in BootStorages : st.enabled \subseteq Range(st.entries)}
  /\ boot = [NoBoot EXCEPT !.pc = "migrateGet", !.run = 1, !.before = storage]

NextBoot ==
  \/ migrateGet
  \/ sourcesGet
  \/ bootEnable
  \/ bootResume
  \/ \E p \in enables : enableRejected(p)
  \/ \E p \in enables : enableConfigure(p)
  \/ \E p \in enables : enableActivate(p)
  \/ onMessage
  \/ \E c \in 1..Len(calls) : \E i \in 1..Len(calls[c].slots) :
       \E backend \in Backends \cup NoBackends : settle(c, i, backend)
  \/ \E c \in 1..Len(calls) : \E i \in 1..Len(calls[c].slots) : hang(c, i)
  \/ \E c \in 1..Len(calls) : join(c)

SpecBoot == InitBoot /\ [][NextBoot]_vars

\* storage as an earlier version or an earlier start-up may have left it
MigrateStorages ==
  {[serverUrl |-> u, apiKey |-> k, migrationComplete |-> m,
    jellyfin |-> NoCreds, entries |-> e, enabled |-> S] :
     u \in {"", "http://h"}, k \in {"", "k"}, m \in BOOLEAN,
     e \in {<<>>, <<"emby">>}, S \in SUBSET {"emby"}}

\* migrateJellyfinSettings alone, over the start-ups that call it
InitMigrate ==
  /\ InitRegistry
  /\ store = [id \in Ids |-> GoodCreds]
  /\ calls = <<>>
  /\ InitNoPage
  /\ InitNoUnit
  /\ storage \in {st \in MigrateStorages : st.enabled \subseteq Range(st.entries)}
  /\ boot = NoBoot

NextMigrate ==
  \/ migrateStart
  \/ migrateGet
  \/ migrateSet
  \/ migrateRemove

SpecMigrate == InitMigrate /\ [][NextMigrate]_vars

\* an adapter object of each class under direct calls, as the options
\* page's testConnection and the aggregator make them
InitUnit ==
  /\ InitRegistry
  /\ store = [id \in Ids |-> GoodCreds]
  /\ calls = <<>>
  /\ InitNoPage
  /\ InitNoUnit
  /\ InitNoBoot

NextUnit ==
  \/ \E kind \in UnitKinds : unitNew(kind)
  \/ \E credentials \in UnitCredSamples(adapter.kind) : unitValidate(credentials)
  \/ \E credentials \in UnitCredSamples(adapter.kind) : unitConfigure(credentials)
  \/ \E conn \in ConnectionsFor(adapter) : unitTestConnection(conn)
  \/ \E year \in QueryYears : \E users \in UsersFor(adapter) :
       \E response \in ResponsesFor(adapter, users) :
         unitCheckMovie(year, users, response)
  \/ \E year \in QueryYears : unitCheckMovieStart(year)
  \/ \E users \in UsersResponses : \E response \in ResponsesFor(adapter, users) :
       unitCheckMovieResume(users, response)

SpecUnit == InitUnit /\ [][NextUnit]_vars

\* the matcher applied to titles and years, absent ones included
NextFuzzy ==
  \E a \in FuzzyTitles \cup {NoName} : \E b \in FuzzyTitles \cup {NoName} :
    \E y1 \in FuzzyYears : \E y2 \in FuzzyYears : fuzzyMatchCall(a, b, y1, y2)

SpecFuzzy == InitUnit /\ [][NextFuzzy]_vars

\* the content script's registry: adapters registered in any order, and
\* looked up by host name
NextSites ==
  \/ \E a \in SiteAdapters \cup {"null"} : siteRegister(a)
  \/ \E hostname \in Hostnames : siteGetAdapter(hostname)

SpecSites == InitUnit /\ [][NextSites]_vars

\* a configured adapter, as enableSource leaves it with GoodCreds stored
Configured(kind) == [kind |-> kind, config |-> configure(kind, GoodCreds)]

\* registry states the background can be in when a page's content script
\* starts (each is reached under Spec): nothing registered; an Emby adapter
\* and a partial adapter, both enabled; an Emby adapter enabled and a second
\* id that was unregistered after it was enabled
PageRegistries ==
  { [adapters |-> [id \in Ids |-> NoAdapter], registered |-> <<>>,
     active |-> <<>>],
    [adapters |-> [id \in Ids |-> IF id = "emby" THEN Configured("emby")
                                  ELSE Configured("partial")],
     registered |-> <<"emby", "plex">>,
     active |-> <<"emby", "plex">>],
    [adapters |-> [id \in Ids |-> IF id = "emby" THEN Configured("emby")
                                  ELSE NoAdapter],
     registered |-> <<"emby">>,
     active |-> <<"emby", "plex">>] }

\* a page a site adapter handles: init installs the observer and scans
\* nothing; some candidate elements may be in the document already
InitPage ==
  /\ \E r \in PageRegistries :
       /\ adapters = r.adapters
       /\ registered = r.registered
       /\ activeSources = r.active
  /\ store = [id \in Ids |-> GoodCreds]
  /\ enables = {}
  /\ calls = <<>>
  /\ present \in SUBSET Elems
  /\ title \in [Elems -> Titles]
  /\ checked = [e \in Elems |-> FALSE]
  /\ skipped = {}
  /\ sent = [e \in Elems |-> 0]
  /\ badges = [e \in Elems |-> 0]
  /\ notify = FALSE
  /\ scans = <<>>
  /\ InitNoUnit
  /\ InitNoBoot

PageStep ==
  \/ \E e \in Elems : insertElement(e)
  \/ \E e \in Elems : titleAppears(e)
  \/ otherMutation
  \/ observerCallback
  \/ \E s \in 1..Len(scans) : resume(s)

NextPage ==
  \/ PageStep
  \/ AggregatorStep

SpecPage == InitPage /\ [][NextPage]_vars

\* the background answers: a settled fetch, Promise.all's continuation or the
\* listener's catch-callback
Answer ==
  \/ \E c \in 1..Len(calls) : \E i \in 1..Len(calls[c].slots) :
       \E backend \in Backends \cup NoBackends : settle(c, i, backend)
  \/ \E c \in 1..Len(calls) : join(c)
  \/ \E c \in 1..Len(calls) : reject(c)

\* the page under the event loop's scheduling: a continuation that is ready
\* (a settled promise's reaction, processItems after its answered message)
\* is run, and a fetch that is not hung completes
SpecPageFair ==
  /\ SpecPage
  /\ WF_vars(Answer)
  /\ WF_vars(\E s \in 1..Len(scans) : resume(s))

\* ------------------------------------------------------------------ claims

CallIds == 1..Len(calls)
SlotIds(c) == 1..Len(calls[c].slots)
Results(c) == calls[c].response.results

\* a source of call c failed: its checkMovie threw, its backend request
\* failed, or the id had no adapter object
Failed(c, i) ==
  \/ calls[c].slots[i].threw
  \/ calls[c].slots[i].backend \in {"neterr", "noconfig"}
  \/ calls[c].slots[i].st = "rejected"

\* C1: over any mutation notifications and any interleaving of processItems
\* scans, at most one CHECK_MOVIE message is sent for an element.
C1_AtMostOneQuery == \A e \in Elems : sent[e] <= 1

\* C1 witness: a second scan has run while the first one still awaits the
\* answer for an element, and that element has one message sent.
C1_Witness ==
  /\ Len(scans) = 2
  /\ scans[1].pc = "await"
  /\ calls[scans[1].call].responses = 0
  /\ scans[1].cur \in scans[2].seen
  /\ sent[scans[1].cur] = 1

\* C2: every checkAllSources call that has ended has returned a result whose
\* results list has one entry per id of the active set at call time, in order.
C2_OneEntryPerActiveSource ==
  \A c \in CallIds :
    calls[c].state # "pending" =>
      /\ calls[c].state = "returned"
      /\ Len(Results(c)) = Len(calls[c].activeAt)
      /\ \A i \in 1..Len(Results(c)) :
           Results(c)[i].sourceId = calls[c].activeAt[i]

\* C3: when an active source's checkMovie call threw and the call has ended,
\* the result was returned, holds that source's entry with found = false and
\* the error message, and holds every other source's entry with the found
\* that source's own checkMovie reported.
C3_FailureIsolated ==
  \A c \in CallIds : \A i \in SlotIds(c) :
    (calls[c].state # "pending" /\ calls[c].slots[i].threw) =>
      /\ calls[c].state = "returned"
      /\ Len(Results(c)) = Len(calls[c].slots)
      /\ Results(c)[i].found = FALSE
      /\ Results(c)[i].error # "none"
      /\ \A j \in SlotIds(c) \ {i} :
           ~calls[c].slots[j].threw =>
             Results(c)[j].found =
               checkMovie(calls[c].slots[j].kind, calls[c].slots[j].backend).found

\* C4: checkAllSources is a join point: a call that awaits has started the
\* checkMovie of every source it listed, and a call that has returned a
\* result did so with every one of them settled and in the result.
C4_JoinPoint ==
  \A c \in CallIds :
    /\ Len(calls[c].slots) = Len(calls[c].activeAt)
    /\ calls[c].state = "returned" =>
         /\ \A i \in SlotIds(c) : calls[c].slots[i].st = "fulfilled"
         /\ Len(Results(c)) = Len(calls[c].slots)
         /\ \A i \in SlotIds(c) : Results(c)[i] = calls[c].slots[i].entry

\* C4 witness: a call over two sources has returned.
C4_Witness ==
  \E c \in CallIds :
    /\ calls[c].state = "returned"
    /\ Len(calls[c].slots) = 2
    /\ calls[c].slots[1].kind # calls[c].slots[2].kind

\* C5 as stated: when one source's checkMovie never settles and every other
\* source's has settled, the healthy sources' results are delivered or are
\* about to be.
C5_HungSourceDoesNotBlock ==
  \A c \in CallIds : \A i \in SlotIds(c) :
    ( /\ Len(calls[c].slots) >= 2
      /\ calls[c].slots[i].st = "hung"
      /\ \A j \in SlotIds(c) \ {i} : calls[c].slots[j].st = "fulfilled" )
    => \/ calls[c].responses > 0
       \/ ENABLED join(c)
       \/ ENABLED reject(c)

\* C5 amended: while a source's checkMovie has not settled, checkAllSources
\* has not returned: no result list, and so no healthy source's entry, has
\* been delivered for that query.
C5_HungSourceBlocksResults ==
  \A c \in CallIds :
    (\E i \in SlotIds(c) : calls[c].slots[i].st = "hung") =>
      /\ calls[c].state # "returned"
      /\ ~calls[c].response.success
      /\ Results(c) = <<>>

\* C5 witness: one source is hung, another has found the title, and nothing
\* has been delivered.
C5_Witness ==
  \E c \in CallIds : \E i, j \in SlotIds(c) :
    /\ calls[c].slots[i].st = "hung"
    /\ calls[c].slots[j].st = "fulfilled"
    /\ calls[c].slots[j].entry.found
    /\ calls[c].responses = 0

\* C6: a failing source does not stop DOM processing: a call that has ended,
\* by a result or by a rejection, has been answered once; a scan whose
\* message has been answered can go on; and a scan that has ended has
\* marked every element it listed, each one either without a title or with
\* its message sent.
C6_PipelineSurvivesFailure ==
  /\ \A c \in CallIds : calls[c].state # "pending" => calls[c].responses = 1
  /\ \A s \in 1..Len(scans) :
       (scans[s].pc = "await" /\ calls[scans[s].call].responses > 0)
         => ENABLED resume(s)
  /\ \A s \in 1..Len(scans) :
       scans[s].pc = "done" =>
         \A e \in scans[s].seen :
           checked[e] /\ (e \in skipped \/ sent[e] >= 1)

\* C6 witness: the only scan has ended after two queries, the first of which
\* had a failing source.
C6_Witness ==
  /\ Len(scans) = 1
  /\ scans[1].pc = "done"
  /\ Len(calls) = 2
  /\ \E i \in SlotIds(1) : Failed(1, i)

\* the scenario of C7: two sources, one found the title, the other's backend
\* request failed with a network error, and the call has returned
C7_Scenario(c, i, j) ==
  /\ calls[c].state = "returned"
  /\ Len(calls[c].slots) = 2
  /\ i # j
  /\ calls[c].slots[i].backend = "match"
  /\ calls[c].slots[j].backend = "neterr"

\* C7 as stated: in the scenario the result has found = true, two entries,
\* and the failing source's entry has its error set.
C7_NetworkErrorHasError ==
  \A c \in CallIds : \A i, j \in SlotIds(c) :
    C7_Scenario(c, i, j) =>
      /\ calls[c].response.found
      /\ Len(Results(c)) = 2
      /\ Results(c)[j].error # "none"

\* C7 amended: in the scenario the result has found = true and two entries,
\* and the failing source's entry is found = false with no error.
C7_NetworkErrorIsNotFound ==
  \A c \in CallIds : \A i, j \in SlotIds(c) :
    C7_Scenario(c, i, j) =>
      /\ calls[c].response.success
      /\ calls[c].response.found
      /\ Len(Results(c)) = 2
      /\ Results(c)[i].found
      /\ Results(c)[j].found = FALSE
      /\ Results(c)[j].error = "none"

\* C7 witness: the scenario, with the Emby adapter the failing one.
C7_Witness ==
  \E c \in CallIds : \E i, j \in SlotIds(c) :
    C7_Scenario(c, i, j) /\ calls[c].slots[j].kind = "emby"

\* C8: a call made with the active set empty has returned at once with
\* found = false and no results, and has started no checkMovie.
C8_EmptyActiveSet ==
  \A c \in CallIds :
    calls[c].activeAt = <<>> =>
      /\ calls[c].state = "returned"
      /\ calls[c].slots = <<>>
      /\ calls[c].response =
           [success |-> TRUE, results |-> <<>>, found |-> FALSE, error |-> "none"]
      /\ calls[c].responses = 1

\* C8 witness: a call was made with the active set empty while a configured
\* adapter was registered.
C8_Witness ==
  \E c \in CallIds :
    /\ calls[c].activeAt = <<>>
    /\ activeSources = <<>>
    /\ \E id \in Ids : adapters[id].config # NullConfig

\* C9: the found flag of a returned result is true exactly when some entry
\* of its results has found = true, and the results hold one entry for
\* every source, whatever its outcome.
C9_FoundIffSomeEntryFound ==
  \A c \in CallIds :
    calls[c].state = "returned" =>
      /\ calls[c].response.found <=>
           (\E i \in 1..Len(Results(c)) : Results(c)[i].found)
      /\ Len(Results(c)) = Len(calls[c].slots)
      /\ \A i \in SlotIds(c) : Results(c)[i].sourceId = calls[c].slots[i].id

\* C9 witness: a returned result holds a found entry and a failed one.
C9_Witness ==
  \E c \in CallIds : \E i, j \in SlotIds(c) :
    /\ calls[c].state = "returned"
    /\ Results(c)[i].found
    /\ Results(c)[j].error # "none"

\* C10: every id of the active set is registered, with an adapter whose
\* configure has completed.
C10_ActiveSourcesConfigured ==
  \A i \in 1..Len(activeSources) :
    /\ adapters[activeSources[i]] # NoAdapter
    /\ adapters[activeSources[i]].config # NullConfig

\* C11: a step that unregisters an id (its adapter leaves the registry)
\* leaves the id out of the active set, so getActiveSources no longer lists
\* it and a later checkAllSources has no entry for it.
C11_UnregisterDeactivates ==
  [][\A id \in Ids :
       (adapters[id] # NoAdapter /\ adapters'[id] = NoAdapter)
         => id \notin Range(activeSources')]_vars

\* C12: enableSource of an id that is not registered is rejected with the
\* not-found error: it never gets to read the credential store, and neither
\* the call nor its rejection changes the active set, any adapter or the
\* credential store.
C12_EnableUnknownRejects ==
  /\ [](\A p \in enables : p.kind = NoKind => p.pc = "notfound")
  /\ [][\A p \in (enables' \ enables) \cup (enables \ enables') :
          p.pc = "notfound" => UNCHANGED <<adapters, activeSources, store>>]_vars

\* C12 witness: enableSource of an unregistered id has been rejected while
\* another source is registered, configured and active.
C12_Witness ==
  \E p \in enables :
    /\ p.pc = "notfound"
    /\ adapters[p.id] = NoAdapter
    /\ \E id \in Ids \ {p.id} :
         adapters[id].config # NullConfig /\ activeSources = <<id>>

\* C13: enableSource of a source that was enabled and then disabled only
\* marks it active again: the configuration an inactive adapter got from its
\* earlier enable is not replaced, whatever the credential store holds now.
C13_ReenableKeepsConfig ==
  [][\A id \in Ids :
       ( /\ adapters[id].config # NullConfig
         /\ id \notin Range(activeSources)
         /\ adapters'[id].config # NullConfig )
       => adapters'[id].config = adapters[id].config]_vars

\* the registered ids that are active, in registration order
RegisteredActive ==
  SelectSeq(registered, LAMBDA id : id \in Range(activeSources))

\* C14: getActiveSources lists the registered active sources in the order
\* in which their ids were registered, whatever the order of the enables.
C14_RegistrationOrder ==
  SelectSeq([i \in 1..Len(getActiveSources) |-> getActiveSources[i].id],
            LAMBDA id : id \in Range(registered))
    = RegisteredActive

ApiKinds == {"emby", "plex"}

\* C15: for every adapter class, configure(credentials) throws exactly when
\* validateCredentials(credentials) has errors, and a configure that threw
\* left the adapter's configuration and caches as they were.
C15_ConfigureFailsIffInvalid ==
  result.op = "configure" =>
    /\ result.threw <=>
         validateCredentials(result.before.kind, result.input) # <<>>
    /\ result.threw => adapter = result.before
    /\ ~result.threw =>
         adapter.config = configure(result.before.kind, result.input)
           /\ adapter.config # NullConfig

\* C15 witness: configure threw on a Local adapter that was configured and
\* had its file list cached.
C15_Witness ==
  /\ result.op = "configure"
  /\ result.threw
  /\ result.before.kind = "local"
  /\ result.before.config # NullConfig
  /\ result.before.fileCache # {}

\* C16: no checkMovie uses a value cached under an earlier configuration:
\* the user id an Emby adapter puts in its request is one of the server it
\* asks, and a Local adapter caches file lists of its current paths only.
C16_NoStaleCache ==
  /\ (result.op = "checkMovie" /\ result.before.kind = "emby"
        /\ result.out.requested)
       => result.out.user \in {result.out.server, "null"}
  /\ (adapter.kind = "local" /\ adapter.config = NullConfig)
       => adapter.fileCache = {}
  /\ (adapter.kind = "local" /\ adapter.config # NullConfig)
       => adapter.fileCache \subseteq {adapter.config.paths}

\* C17: checkMovie of an Emby, Plex or Local adapter never throws, and
\* with the adapter unconfigured or without a JSON item list from the
\* backend it resolves to found = false.
C17_CheckMovieNeverThrows ==
  result.op = "checkMovie" =>
    /\ ~result.out.threw
    /\ (result.before.config = NullConfig \/ result.response.kind # "json")
         => (~result.out.found /\ result.out.movie = NoMovie)

\* C17 witness: a configured Emby adapter's items request failed with a
\* network error.
C17_Witness ==
  /\ result.op = "checkMovie"
  /\ result.before.kind = "emby"
  /\ result.before.config # NullConfig
  /\ result.response.kind = "neterr"

\* the round trip of a testConnection call failed
RoundTripFailed ==
  /\ result.before.kind \in ApiKinds
  /\ \/ result.before.config = NullConfig
     \/ result.conn \in {"neterr", "http500"}
     \/ result.before.kind = "plex" /\ result.conn \in {"nonjson", "othershape"}

\* C18: testConnection never throws, and when the round trip fails it
\* resolves to success = false with an error message.
C18_TestConnectionNeverThrows ==
  result.op = "testConnection" =>
    /\ ~result.out.threw
    /\ RoundTripFailed =>
         (~result.out.success /\ result.out.error # "none")
    /\ ~RoundTripFailed => result.out.success

\* C18 witness: a configured Plex adapter got a body that is not JSON.
C18_Witness ==
  /\ result.op = "testConnection"
  /\ result.before.kind = "plex"
  /\ result.before.config # NullConfig
  /\ result.conn = "nonjson"

\* the item has a name, and name and year satisfy fuzzyMatch for the query
Satisfies(item, year) ==
  /\ item.name # NoName
  /\ fuzzyMatch(QueryTitle, item.name, year, item.year)

\* C19: an Emby or Plex checkMovie that got an item list returns
\* found = true with a matching item exactly when some item of the list
\* satisfies fuzzyMatch for the query.
C19_FoundIffSomeItemMatches ==
  (result.op = "checkMovie" /\ result.before.kind \in ApiKinds
     /\ result.response.kind = "json")
  => LET items == result.response.items IN
       /\ result.out.found <=>
            (\E i \in 1..Len(items) : Satisfies(items[i], result.year))
       /\ result.out.found =>
            (\E i \in 1..Len(items) :
               items[i] = result.out.movie /\ Satisfies(items[i], result.year))

\* the message for a missing secret field
KeyRequired(kind) ==
  IF kind = "plex" THEN "Plex Token is required" ELSE "API Key is required"

\* C20 as stated: validateCredentials of an Emby or Plex adapter applied
\* to a candidate with a malformed serverUrl and nothing else gives exactly
\* the errors list ["Invalid Server URL"].
C20_OnlyInvalidUrl ==
  (result.op = "validateCredentials" /\ result.before.kind \in ApiKinds
     /\ result.input = BadCreds)
  => result.errors = <<"Invalid Server URL">>

\* C20 amended: it gives the errors "Invalid Server URL" and then the
\* missing-secret error of the adapter, and leaves the adapter as it was.
C20_InvalidUrlAndMissingKey ==
  (result.op = "validateCredentials" /\ result.before.kind \in ApiKinds
     /\ result.input = BadCreds)
  => /\ result.errors =
          <<"Invalid Server URL", KeyRequired(result.before.kind)>>
     /\ adapter = result.before

\* C20 witness: an Emby adapter validated the candidate.
C20_Witness ==
  /\ result.op = "validateCredentials"
  /\ result.before.kind = "emby"
  /\ result.input = BadCreds
  /\ Len(result.errors) = 2

\* t is a run of consecutive elements of s
ContainsSeq(s, t) ==
  \E i \in 1..(Len(s) + 1) : \E j \in 0..Len(s) : SubSeq(s, i, j) = t

\* C21: on titles, fuzzyMatchTitle(a, b) equals fuzzyMatchTitle(b, a), and
\* it holds exactly when the lower-cased, trimmed titles are equal or one
\* contains the other.
C21_TitleMatchSymmetric ==
  (result.op = "fuzzyMatch" /\ ~result.threw) =>
    LET na == trim(toLowerCase(result.a))
        nb == trim(toLowerCase(result.b))
    IN /\ result.title = result.reverse
       /\ result.title <=> (na = nb \/ ContainsSeq(na, nb) \/ ContainsSeq(nb, na))

\* C21 witness: a title was matched against a longer one that contains it
\* in another case and with white space around it.
C21_Witness ==
  /\ result.op = "fuzzyMatch"
  /\ result.a = <<" ", "matrix", " ">>
  /\ result.b = <<"The", "Matrix">>
  /\ result.title

\* C22: fuzzyMatchYear is true when a year is absent and otherwise exactly
\* when the years differ by at most one, and fuzzyMatch is the conjunction
\* of the title and the year predicate.
C22_YearWithinOne ==
  result.op = "fuzzyMatch" =>
    /\ result.year <=>
         (result.y1 = 0 \/ result.y2 = 0 \/ (result.y1 - result.y2) \in -1..1)
    /\ ~result.threw => (result.both <=> (result.title /\ result.year))

\* C22 witness: 2020 against 2022 did not match.
C22_Witness ==
  /\ result.op = "fuzzyMatch"
  /\ result.y1 = 2020
  /\ result.y2 = 2022
  /\ ~result.year
  /\ result.title

\* C23: no call of the matcher raises an exception, absent titles and
\* years included.
C23_MatcherTotal ==
  result.op = "fuzzyMatch" => ~result.threw

\* C24: an element for which extractTitle gave no title when it was scanned
\* is marked processed, has no query sent and gets no indicator, whatever
\* mutations and scans follow and even once its title can be extracted.
C24_UntitledNeverRetried ==
  \A e \in skipped : checked[e] /\ sent[e] = 0 /\ badges[e] = 0

\* C24 witness: an element was passed over without a title, its title
\* appeared, and a later scan that listed the element has ended.
C24_Witness ==
  \E e \in skipped :
    /\ title[e] = "title"
    /\ Len(scans) = 2
    /\ scans[2].pc = "done"
    /\ e \in scans[2].seen

\* the scan s, suspended on the query of an element, is resumed by this step
Resumed(s) ==
  /\ s \in 1..Len(scans)
  /\ scans[s].pc = "await"
  /\ scans'[s] # scans[s]

\* a response that lists a source with found = true
HasFound(response) ==
  /\ response.success
  /\ \E i \in 1..Len(response.results) : response.results[i].found

FoundEntry(s) == HasFound(calls[scans[s].call].response)

C26_FilteredNotQueried ==
  \A e \in Elems : ~shouldProcessElement(e) => sent[e] = 0 /\ badges[e] = 0

\* the listener's catch answers {success: false, error}: of the responses
\* only the aggregate carries the keys found and results
CarriesResults(response) == response.success

\* C27: every CHECK_MOVIE request is answered at most once, each answer
\* carries success, found and results, and a request whose per-source calls
\* have all settled is answered or is about to be.
C27_OneFullResponse ==
  \A c \in CallIds :
    /\ calls[c].responses <= 1
    /\ calls[c].responses = 1 => CarriesResults(calls[c].response)
    /\ (\A i \in SlotIds(c) : calls[c].slots[i].st \in {"fulfilled", "rejected"})
         => calls[c].responses = 1 \/ ENABLED (join(c) \/ reject(c))

\* the places of the adapters array whose adapter handles the host name
Handlers(arr, hostname) == {i \in 1..Len(arr) : canHandle(arr[i], hostname)}

\* C28: getAdapter(hostname) gives null for the empty host name and when no
\* registered adapter handles the host name, else the adapter registered
\* before every other adapter that handles it.
C28_FirstRegisteredWins ==
  result.op = "getAdapter" =>
    LET h == Handlers(result.adapters, result.hostname) IN
      IF result.hostname = <<>> \/ h = {} THEN result.adapter = "null"
      ELSE \E i \in h :
             /\ \A j \in h : i <= j
             /\ result.adapter = result.adapters[i]

\* C28 witness: two registered adapters handle the host name and the one
\* returned is the earlier, not the later.
C28_Witness ==
  /\ result.op = "getAdapter"
  /\ \E i, j \in Handlers(result.adapters, result.hostname) :
       /\ i < j
       /\ result.adapters[i] # result.adapters[j]
       /\ result.adapter = result.adapters[i]

\* C29: nothing keeps configure from running while a checkMovie call is
\* suspended, and the call resumed then makes its items request with the
\* server URL of the configuration at that moment and the user id of the
\* server asked when the call was made.
C29_ConfigureRacesCheckMovie ==
  /\ [](inflight # NoCall =>
          \A credentials \in {GoodCreds, OtherCreds} :
            ENABLED unitConfigure(credentials))
  /\ [][(inflight # NoCall /\ inflight' = NoCall
            /\ result'.op = "checkMovie" /\ result'.out.requested)
         => /\ result'.out.server = adapter.config.serverUrl
            /\ result'.out.user \in {inflight.asked, "null"}]_vars

\* C29 witness: a checkMovie call made with no cached user id has ended
\* after a request that carried the user id of the old configuration's
\* server to the server of the new configuration.
C29_Witness ==
  /\ result.op = "checkMovie"
  /\ result.before.userId = "null"
  /\ result.out.requested
  /\ result.out.user = result.before.config.serverUrl
  /\ result.out.server = adapter.config.serverUrl
  /\ result.out.server # result.out.user

\* C30: no element is marked or queried before the first scan, and a scan
\* starts only in answer to a DOM-mutation notification: the content script
\* makes no scan of its own when it starts.
C30_ScanOnlyOnMutation ==
  /\ [](scans = <<>> => \A e \in Elems : ~checked[e] /\ sent[e] = 0)
  /\ [][Len(scans') > Len(scans) => notify /\ ~notify']_vars

\* C30 witness: every candidate element was in the document with a title
\* and unqueried while no mutation had been notified, and the one scan that
\* a notification started has queried an element.
C30_Witness ==
  /\ present = Elems
  /\ \A e \in Elems : title[e] = "title"
  /\ Len(scans) = 1
  /\ ~notify
  /\ \E e \in Elems : sent[e] = 1

\* C31: a step in which an id leaves the active set (disableSource) takes
\* out that id only, keeps the other ids in their order, and changes no
\* adapter, no registration and no stored credential.
C31_DisableOnlyDeactivates ==
  [][(Range(activeSources') # Range(activeSources)
        /\ Range(activeSources') \subseteq Range(activeSources))
     => /\ \E id \in Range(activeSources) :
             activeSources' = SeqRemove(activeSources, id)
        /\ Len(activeSources') = Len(activeSources) - 1
        /\ UNCHANGED <<adapters, registered, store>>]_vars

\* C31 witness: a configured adapter is registered and no longer active
\* with no enable in flight (it was disabled), while another id is active.
C31_Witness ==
  /\ enables = {}
  /\ \E id \in Ids :
       /\ adapters[id].config # NullConfig
       /\ id \in Range(registered)
       /\ id \notin Range(activeSources)
       /\ \E other \in Ids \ {id} : other \in Range(activeSources)

\* C32: a configure of a Local adapter leaves its cache empty; a checkMovie
\* of a configured Local adapter builds the file list exactly when the cache
\* is empty (the first call after a configure) and leaves the cache with the
\* one entry keyed by the configured paths, which later calls reuse.
C32_ListingCachedPerConfig ==
  /\ (result.op = "configure" /\ result.before.kind = "local" /\ ~result.threw)
       => adapter.fileCache = {}
  /\ (result.op = "checkMovie" /\ result.before.kind = "local"
        /\ result.before.config # NullConfig)
       => /\ result.built <=> result.before.fileCache = {}
          /\ adapter.fileCache = {result.before.config.paths}

\* C32 witness: a checkMovie of a configured Local adapter has reused the
\* list an earlier call cached under the same paths.
C32_Witness ==
  /\ result.op = "checkMovie"
  /\ result.before.kind = "local"
  /\ result.before.config # NullConfig
  /\ result.before.fileCache = {result.before.config.paths}
  /\ ~result.built

\* C33: the step in which an enableSource call ends because configure
\* threw on the stored credentials changes neither the active set nor any
\* adapter's configuration: an inactive id stays inactive, an active id stays
\* active as it was configured.
C33_FailedEnableChangesNothing ==
  [][\A p \in enables :
       (p.pc = "read" /\ enables' = enables \ {p})
         => /\ configureThrows(p.kind, store[p.id])
            /\ UNCHANGED <<activeSources, adapters, registered, store>>]_vars

\* C33 witness: enableSource of an active, configured source has read
\* credentials on which its configure throws.
C33_Witness ==
  \E p \in enables :
    /\ p.pc = "read"
    /\ ~p.stale
    /\ configureThrows(p.kind, store[p.id])
    /\ p.id \in Range(activeSources)
    /\ adapters[p.id].config # NullConfig

\* C34: when disableSource(id) or unregister(id) was called while an
\* enableSource(id) call was suspended, the id is not in the active set once
\* the enableSource call has ended too.
C34_LastCallWins ==
  [][\A p \in enables :
       (p.overtaken /\ enables' = enables \ {p})
         => p.id \notin Range(activeSources')]_vars

\* the stored sources that start-up should leave active: enabled,
\* registered, and with credentials that validate
Enableable ==
  {id \in Range(storage.entries) \cap storage.enabled :
     /\ getAdapter(id) # NoAdapter
     /\ validateCredentials(getAdapter(id).kind, getSourceCredentials(id)) = <<>>}

\* C35: when initializeSources has ended, the active set holds exactly the
\* stored sources that are enabled, registered and have valid credentials,
\* whichever of the other entries failed to enable.
C35_InitEnablesAllValid ==
  boot.pc = "done" => Range(activeSources) = Enableable

\* C35 witness: initialization has ended, and an entry whose enableSource
\* failed comes before an entry that is active.
C35_Witness ==
  /\ boot.pc = "done"
  /\ \E i, j \in 1..Len(storage.entries) :
       /\ i < j
       /\ storage.entries[i] \in storage.enabled
       /\ storage.entries[i] \notin Range(activeSources)
       /\ storage.entries[j] \in Range(activeSources)

\* initialize() is suspended in the migration or in the enabling of the
\* stored sources
Initializing == boot.pc \notin {"off", "done"}

\* C36: while initialize() is suspended the listener takes a CHECK_MOVIE
\* request as at any other time, and the request is handled with the active
\* set of that moment: with no source active yet it is answered at once
\* with found = false and no results.
C36_AnsweredDuringInit ==
  /\ []((Initializing /\ Len(calls) < MaxCalls) => ENABLED onMessage)
  /\ [][(Initializing /\ Len(calls') > Len(calls))
         => LET call == calls'[Len(calls')] IN
              /\ call.activeAt = activeSources
              /\ Len(call.slots) = Len(activeSources)
              /\ activeSources = <<>> =>
                    /\ call.responses = 1
                    /\ call.response.success
                    /\ ~call.response.found
                    /\ call.response.results = <<>>]_vars

\* C36 witness: a request was answered with found = false and no results
\* while initialize() was still suspended, before a stored source that
\* start-up is going to activate was active.
C36_Witness ==
  /\ Initializing
  /\ Len(calls) = 1
  /\ calls[1].responses = 1
  /\ calls[1].response.results = <<>>
  /\ ~calls[1].response.found
  /\ activeSources = <<>>
  /\ Enableable # {}

\* C38: a run of migrateJellyfinSettings that found both legacy keys and
\* no migrationComplete has written sources.jellyfin with their values and
\* enabled = true, set migrationComplete and removed the legacy keys; every
\* other run, a second run among them, has left storage as it found it.
C38_MigrationOneShot ==
  boot.pc = "migrated" =>
    IF ~boot.before.migrationComplete
         /\ boot.before.serverUrl # "" /\ boot.before.apiKey # ""
    THEN /\ storage.jellyfin = [serverUrl |-> boot.before.serverUrl,
                                key |-> boot.before.apiKey]
         /\ "jellyfin" \in Range(storage.entries)
         /\ "jellyfin" \in storage.enabled
         /\ storage.migrationComplete
         /\ storage.serverUrl = "" /\ storage.apiKey = ""
         /\ boot.run = 1
    ELSE storage = boot.before

\* C38 witness: the run of a second start-up has ended, after a first run
\* that migrated the legacy keys.
C38_Witness ==
  /\ boot.pc = "migrated"
  /\ boot.run = 2
  /\ boot.before.migrationComplete
  /\ boot.before.jellyfin # NoCreds
  /\ storage = boot.before

\* C39: a checkMovie of a Local adapter gives found = false with no movie,
\* for every year of the query, configured or not, with the list built or
\* taken from the cache.
C39_LocalNeverFinds ==
  (result.op = "checkMovie" /\ result.before.kind = "local")
    => ~result.out.threw /\ ~result.out.found /\ result.out.movie = NoMovie

\* C39 witness: a configured Local adapter was asked for the title with
\* its year, took its list from the cache, and found nothing.
C39_Witness ==
  /\ result.op = "checkMovie"
  /\ result.before.kind = "local"
  /\ result.before.config # NullConfig
  /\ result.before.fileCache # {}
  /\ result.year = 1999
  /\ ~result.out.found

\* some fetch of some query never completes
SomeHung ==
  \E c \in CallIds : \E i \in 1..Len(calls[c].slots) :
    calls[c].slots[i].st = "hung"

\* no processItems is suspended on the answer to a message
NoQueryInFlight == \A s \in 1..Len(scans) : scans[s].pc # "await"

\* C37: the messages sent are never more than the candidate elements of the
\* document, a scan that starts when every candidate element is marked (as
\* after a badge insertion) sends none, and, when no fetch hangs, from some
\* point on no processItems waits for an answer.
C37_PipelineQuiesces ==
  /\ [](Len(calls) <= Cardinality(present))
  /\ [][(Len(scans') > Len(scans) /\ \A e \in present : checked[e])
         => calls' = calls]_vars
  /\ ([]~SomeHung => <>[]NoQueryInFlight)

\* C37 witness: a badge was inserted, the scan its mutation started has
\* listed the badged element and ended, every scan has ended, and each
\* element in the document was queried once.
C37_Witness ==
  /\ Len(scans) = 2
  /\ NoQueryInFlight
  /\ present = Elems
  /\ Len(calls) = Cardinality(present)
  /\ \E e \in scans[2].seen : badges[e] = 1 /\ sent[e] = 1
  /\ ~notify

====
